---- MODULE Spec2Model ----
(***************************************************************************)
(* The buffer pool manager instance of src/buffer and its clock replacer.  *)
(* One action per public operation of BufferPoolManagerInstance; the       *)
(* ClockReplacer is a record value and its operations are operators on it. *)
(***************************************************************************)
EXTENDS Integers, Sequences, FiniteSets, TLC

\* ---------------------------------------------------------------- bounds
PoolSize == 2
MaxPageId == 2
MaxInstances == 2
MaxByte == 1
NumThreads == 2

INVALID_PAGE_ID == -1

Frames == 0 .. (PoolSize - 1)
PageIds == 0 .. MaxPageId
Bytes == 0 .. MaxByte
Threads == 1 .. NumThreads

\* The null Page pointer NewPgImp and FetchPgImp return.
Nullptr == -1

VARIABLES
    pages_,          \* frame -> [page_id_, pin_count_, is_dirty_, data_]
    page_table_,     \* page id -> frame, a function on the resident page ids
    free_list_,      \* sequence of frames
    replacer_,       \* the ClockReplacer
    next_page_id_,
    num_instances_,
    instance_index_,
    disk,            \* the disk manager's pages: page id -> bytes
    ret,             \* what the last call returned: [frame, ok]
    allocated,       \* the page ids NewPgImp has handed out, in order
    status,          \* "running", or "hung" once a call never returns
    latch_,          \* the thread that holds the pool's mutex, or 0
    pc,              \* thread -> where it is in the operation it has called
    before,          \* history: the pool as FetchPgImp of a resident page found it
    touched_after    \* history: frame -> the frames last unpinned before the
                     \* frame was pinned again by FetchPgImp

vars == << pages_, page_table_, free_list_, replacer_, next_page_id_,
           num_instances_, instance_index_, disk, ret, allocated, status,
           latch_, pc, before, touched_after >>

\* What a caller that is alone, and keeps no history, leaves as it is.
threads == << latch_, pc >>
history == << before, touched_after >>

\* ------------------------------------------------------- ClockReplacer
ClockReplacer(num_pages) ==
    [ frame_ids_ |-> [i \in 0 .. (num_pages - 1) |-> -1],
      pinned_    |-> [i \in 0 .. (num_pages - 1) |-> FALSE],
      ref_bits_  |-> [i \in 0 .. (num_pages - 1) |-> FALSE],
      max_size_  |-> num_pages,
      now_       |-> 0,
      size_      |-> 0 ]

Min(S) == CHOOSE x \in S : \A y \in S : x <= y

\* The slots a loop  for (i = 0; i < max_size_; i++) if (frame_ids_[i] == v)
\* can stop at; the loop returns at the least of them.
SlotsOf(r, v) == { i \in 0 .. (r.max_size_ - 1) : r.frame_ids_[i] = v }

\* The sweep passing over empty slots only, and taking a pinned slot whose
\* reference bit is clear.
RECURSIVE Sweep_TakesPinned(_, _)
Sweep_TakesPinned(r, steps) ==
    IF r.frame_ids_[r.now_] = -1
    THEN Sweep_TakesPinned([r EXCEPT !.now_ = (r.now_ + 1) % r.size_], steps + 1)
    ELSE IF r.ref_bits_[r.now_]
    THEN Sweep_TakesPinned([r EXCEPT !.ref_bits_[r.now_] = FALSE,
                                     !.now_ = (r.now_ + 1) % r.size_], steps + 1)
    ELSE [ found    |-> TRUE,
           hangs    |-> FALSE,
           frame_id |-> r.frame_ids_[r.now_],
           steps    |-> steps,
           r        |-> [r EXCEPT !.frame_ids_[r.now_] = -1,
                                  !.now_ = (r.now_ + 1) % r.size_] ]

\* The clock sweep of Victim: one call per visit of the hand; steps counts
\* the slots the hand has passed over before it stops.
RECURSIVE Sweep(_, _)
Sweep(r, steps) ==
    IF r.pinned_[r.now_] \/ r.frame_ids_[r.now_] = -1
    THEN Sweep([r EXCEPT !.now_ = (r.now_ + 1) % r.size_], steps + 1)
    ELSE IF r.ref_bits_[r.now_]
    THEN Sweep([r EXCEPT !.ref_bits_[r.now_] = FALSE,
                         !.now_ = (r.now_ + 1) % r.size_], steps + 1)
    ELSE [ found    |-> TRUE,
           hangs    |-> FALSE,
           frame_id |-> r.frame_ids_[r.now_],
           steps    |-> steps,
           r        |-> [r EXCEPT !.frame_ids_[r.now_] = -1,
                                  !.now_ = (r.now_ + 1) % r.size_] ]

\* The sweep only ever looks at slots 0 .. size_-1; it stops iff one of them
\* holds a frame that is not pinned.
SweepStops(r) ==
    \E i \in 0 .. (r.size_ - 1) : ~r.pinned_[i] /\ r.frame_ids_[i] # -1

VictimFails(r) ==
    [ found |-> FALSE, hangs |-> FALSE, frame_id |-> -1, steps |-> 0, r |-> r ]

\* Victim giving up as soon as one slot is pinned.
Victim_AnyPinnedFails(r) ==
    IF r.size_ = 0 THEN VictimFails(r)
    ELSE LET pinned_cnt == Cardinality({ i \in 0 .. (r.size_ - 1) :
                                           r.frame_ids_[i] # -1 /\ r.pinned_[i] })
         IN  IF pinned_cnt > 0 THEN VictimFails(r)
             ELSE IF ~SweepStops(r)
             THEN [ found |-> FALSE, hangs |-> TRUE, frame_id |-> -1,
                    steps |-> 0, r |-> r ]
             ELSE Sweep(r, 0)

Victim(r) ==
    IF r.size_ = 0 THEN VictimFails(r)
    ELSE LET pinned_cnt == Cardinality({ i \in 0 .. (r.size_ - 1) :
                                           r.frame_ids_[i] # -1 /\ r.pinned_[i] })
         IN  IF pinned_cnt = r.size_ THEN VictimFails(r)
             ELSE IF ~SweepStops(r)
             THEN [ found |-> FALSE, hangs |-> TRUE, frame_id |-> -1,
                    steps |-> 0, r |-> r ]
             ELSE Sweep(r, 0)

\* Pin that does nothing.
Pin_Noop(r, frame_id) == r

Pin(r, frame_id) ==
    IF SlotsOf(r, frame_id) # {}
    THEN LET i == Min(SlotsOf(r, frame_id))
         IN  [r EXCEPT !.pinned_[i] = TRUE, !.ref_bits_[i] = TRUE]
    ELSE IF SlotsOf(r, -1) # {}
    THEN LET i == Min(SlotsOf(r, -1))
         IN  [r EXCEPT !.frame_ids_[i] = frame_id,
                       !.pinned_[i] = TRUE,
                       !.ref_bits_[i] = FALSE,
                       !.size_ = IF r.size_ + 1 < r.max_size_
                                 THEN r.size_ + 1 ELSE r.max_size_]
    ELSE r

\* Unpin that sets the reference bit of a pinned slot and leaves it pinned.
Unpin_KeepsPinned(r, frame_id) ==
    IF SlotsOf(r, frame_id) # {}
    THEN LET i == Min(SlotsOf(r, frame_id))
         IN  IF r.pinned_[i]
             THEN [r EXCEPT !.ref_bits_[i] = TRUE]
             ELSE r
    ELSE IF SlotsOf(r, -1) # {}
    THEN LET i == Min(SlotsOf(r, -1))
         IN  [r EXCEPT !.frame_ids_[i] = frame_id,
                       !.pinned_[i] = FALSE,
                       !.ref_bits_[i] = FALSE,
                       !.size_ = IF r.size_ + 1 < r.max_size_
                                 THEN r.size_ + 1 ELSE r.max_size_]
    ELSE r

Unpin(r, frame_id) ==
    IF SlotsOf(r, frame_id) # {}
    THEN LET i == Min(SlotsOf(r, frame_id))
         IN  IF r.pinned_[i]
             THEN [r EXCEPT !.ref_bits_[i] = TRUE, !.pinned_[i] = FALSE]
             ELSE r
    ELSE IF SlotsOf(r, -1) # {}
    THEN LET i == Min(SlotsOf(r, -1))
         IN  [r EXCEPT !.frame_ids_[i] = frame_id,
                       !.pinned_[i] = FALSE,
                       !.ref_bits_[i] = FALSE,
                       !.size_ = IF r.size_ + 1 < r.max_size_
                                 THEN r.size_ + 1 ELSE r.max_size_]
    ELSE r

Size(r) ==
    Cardinality({ i \in 0 .. (r.max_size_ - 1) :
                    r.frame_ids_[i] # -1 /\ ~r.pinned_[i] })

\* ------------------------------------------------------- disk manager
WritePage(d, page_id, page_data) ==
    IF page_id \in DOMAIN d THEN [d EXCEPT ![page_id] = page_data] ELSE d

ReadPage(d, page_id) == d[page_id]

\* ------------------------------------------- BufferPoolManagerInstance
Erase(pt, page_id) == [p \in (DOMAIN pt) \ {page_id} |-> pt[p]]

Insert(pt, page_id, frame_id) ==
    [p \in (DOMAIN pt) \cup {page_id} |-> IF p = page_id THEN frame_id ELSE pt[p]]

Range(pt) == { pt[p] : p \in DOMAIN pt }

RetFrame(f) == [frame |-> f, ok |-> f # Nullptr]
RetBool(b) == [frame |-> Nullptr, ok |-> b]

Init ==
    /\ pages_ = [f \in Frames |-> [page_id_ |-> INVALID_PAGE_ID, pin_count_ |-> 0,
                                   is_dirty_ |-> FALSE, data_ |-> 0]]
    /\ page_table_ = << >>
    /\ free_list_ = [i \in 1 .. PoolSize |-> i - 1]
    /\ replacer_ = ClockReplacer(PoolSize)
    /\ num_instances_ \in 1 .. MaxInstances
    /\ instance_index_ \in 0 .. (num_instances_ - 1)
    /\ next_page_id_ = instance_index_
    /\ disk = [p \in PageIds |-> 0]
    /\ ret = RetBool(TRUE)
    /\ allocated = << >>
    /\ status = "running"
    /\ latch_ = 0
    /\ pc = [t \in Threads |-> [at |-> "idle"]]
    /\ before = << >>
    /\ touched_after = [f \in Frames |-> {}]

\* FlushPgImp that writes the page and leaves it dirty.
FlushPg_KeepsDirty(pt, pg, d, page_id) ==
    IF page_id \in DOMAIN pt
    THEN [ pages |-> pg,
           disk  |-> WritePage(d, page_id, pg[pt[page_id]].data_),
           ret   |-> TRUE ]
    ELSE [ pages |-> pg, disk |-> d, ret |-> FALSE ]

\* The body of FlushPgImp, which takes no latch: the pages and the disk after it,
\* and what it returns.
FlushPg(pt, pg, d, page_id) ==
    IF page_id \in DOMAIN pt
    THEN [ pages |-> [pg EXCEPT ![pt[page_id]].is_dirty_ = FALSE],
           disk  |-> WritePage(d, page_id, pg[pt[page_id]].data_),
           ret   |-> TRUE ]
    ELSE [ pages |-> pg, disk |-> d, ret |-> FALSE ]

FlushPgImp(page_id) ==
    /\ status = "running"
    /\ LET r == FlushPg(page_table_, pages_, disk, page_id)
       IN  /\ pages_' = r.pages
           /\ disk' = r.disk
           /\ ret' = RetBool(r.ret)
    /\ UNCHANGED << page_table_, free_list_, replacer_, next_page_id_,
                    num_instances_, instance_index_, allocated, status >>

\* A call that returns the null pointer and has changed nothing.
ReturnNull ==
    /\ ret' = RetFrame(Nullptr)
    /\ UNCHANGED << pages_, page_table_, free_list_, replacer_, next_page_id_,
                    num_instances_, instance_index_, disk, allocated, status >>

\* Victim's sweep never ends: the call never returns and the latch stays held.
NeverReturns ==
    /\ status' = "hung"
    /\ UNCHANGED << pages_, page_table_, free_list_, replacer_, next_page_id_,
                    num_instances_, instance_index_, disk, ret, allocated >>

ValidatePageId(page_id) == page_id % num_instances_ = instance_index_

\* AllocatePage with a stride of one, as if the instance were alone.
AllocatePage_StrideOne ==
    [ page_id |-> next_page_id_, next |-> next_page_id_ + 1 ]

AllocatePage ==
    [ page_id |-> next_page_id_, next |-> next_page_id_ + num_instances_ ]

\* Step 3 of NewPgImp: AllocatePage, then the new page goes into frame_id. fl,
\* pt, pg, d and rp are the free list, page table, pages, disk and replacer as
\* step 2 left them.
NewPgInstall(frame_id, fl, pt, pg, d, rp) ==
    LET next_page_id == AllocatePage.page_id
    IN  IF ~ValidatePageId(next_page_id)
        THEN /\ status' = "aborted"
             /\ next_page_id_' = AllocatePage.next
             /\ free_list_' = fl
             /\ page_table_' = pt
             /\ pages_' = pg
             /\ disk' = d
             /\ replacer_' = rp
             /\ UNCHANGED << num_instances_, instance_index_, ret, allocated >>
        ELSE /\ next_page_id_' = AllocatePage.next
             /\ pages_' = [pg EXCEPT ![frame_id] =
                              [ page_id_ |-> next_page_id, pin_count_ |-> 1,
                                is_dirty_ |-> TRUE, data_ |-> 0 ]]
             /\ page_table_' = Insert(pt, next_page_id, frame_id)
             /\ free_list_' = fl
             /\ replacer_' = Pin(rp, frame_id)
             /\ disk' = d
             /\ ret' = RetFrame(frame_id)
             /\ allocated' = Append(allocated, next_page_id)
             /\ UNCHANGED << num_instances_, instance_index_, status >>

\* Step 1 of NewPgImp giving up as soon as one frame is pinned.
AllPinned_AnyPinned == \E i \in Frames : ~(pages_[i].pin_count_ <= 0)

AllPinned == \A i \in Frames : ~(pages_[i].pin_count_ <= 0)

NewPgImp ==
    /\ status = "running"
    /\ next_page_id_ <= MaxPageId
    /\ IF AllPinned THEN ReturnNull
       ELSE IF free_list_ # << >>
       THEN NewPgInstall(Head(free_list_), Tail(free_list_), page_table_,
                         pages_, disk, replacer_)
       ELSE LET v == Victim(replacer_)
            IN  IF v.hangs THEN NeverReturns
                ELSE IF ~v.found THEN ReturnNull
                ELSE LET frame_id == v.frame_id
                         fl == IF pages_[frame_id].is_dirty_
                               THEN FlushPg(page_table_, pages_, disk,
                                            pages_[frame_id].page_id_)
                               ELSE [ pages |-> pages_, disk |-> disk,
                                      ret |-> FALSE ]
                         pt == Erase(page_table_, fl.pages[frame_id].page_id_)
                     IN  NewPgInstall(frame_id, free_list_, pt, fl.pages,
                                      fl.disk, v.r)

\* Steps 2-4 of FetchPgImp on a miss: the page read from disk goes into frame_id.
FetchPgInstall(page_id, frame_id, fl, rp) ==
    LET d == IF pages_[frame_id].is_dirty_
             THEN WritePage(disk, pages_[frame_id].page_id_,
                            pages_[frame_id].data_)
             ELSE disk
        pt == Insert(Erase(page_table_, pages_[frame_id].page_id_),
                     page_id, frame_id)
    IN  /\ disk' = d
        /\ page_table_' = pt
        /\ pages_' = [pages_ EXCEPT ![frame_id] =
                         [ page_id_ |-> page_id, pin_count_ |-> 1,
                           is_dirty_ |-> FALSE, data_ |-> ReadPage(d, page_id) ]]
        /\ replacer_' = Pin(rp, frame_id)
        /\ free_list_' = fl
        /\ ret' = RetFrame(frame_id)
        /\ UNCHANGED << next_page_id_, num_instances_, instance_index_,
                        allocated, status >>

\* FetchPgImp that hands out a resident page however often it is pinned.
FetchRefused_Never(frame_id) == FALSE

\* if (pages_[frame_id].pin_count_ > 0) return nullptr;
FetchRefused(frame_id) == pages_[frame_id].pin_count_ > 0

FetchPgImp(page_id) ==
    /\ status = "running"
    /\ IF page_id \in DOMAIN page_table_
       THEN LET frame_id == page_table_[page_id]
            IN  IF FetchRefused(frame_id) THEN ReturnNull
                ELSE /\ pages_' = [pages_ EXCEPT ![frame_id].pin_count_ = @ + 1]
                     /\ replacer_' = Pin(replacer_, frame_id)
                     /\ ret' = RetFrame(frame_id)
                     /\ UNCHANGED << page_table_, free_list_, next_page_id_,
                                     num_instances_, instance_index_, disk,
                                     allocated, status >>
       ELSE IF free_list_ # << >>
       THEN FetchPgInstall(page_id, Head(free_list_), Tail(free_list_), replacer_)
       ELSE LET v == Victim(replacer_)
            IN  IF v.hangs THEN NeverReturns
                ELSE IF ~v.found THEN ReturnNull
                ELSE FetchPgInstall(page_id, v.frame_id, free_list_, v.r)

FlushAllPgsImp ==
    /\ status = "running"
    /\ disk' = [p \in DOMAIN disk |->
                   IF p \in DOMAIN page_table_
                   THEN pages_[page_table_[p]].data_ ELSE disk[p]]
    /\ ret' = RetBool(TRUE)
    /\ UNCHANGED << pages_, page_table_, free_list_, replacer_, next_page_id_,
                    num_instances_, instance_index_, allocated, status >>

\* DeletePgImp that never finds the page in use.
DeleteRefused_Never(frame_id) == pages_[frame_id].pin_count_ > 1

\* Someone is using the page: DeletePgImp returns false.
DeleteRefused(frame_id) == pages_[frame_id].pin_count_ > 0

\* The freed frame going to the back of the free list.
PushFront_Back(fl, frame_id) == Append(fl, frame_id)

\* free_list_.push_front(frame_id);
PushFront(fl, frame_id) == << frame_id >> \o fl

DeletePgImp(page_id) ==
    /\ status = "running"
    /\ IF page_id \notin DOMAIN page_table_
       THEN /\ ret' = RetBool(TRUE)
            /\ UNCHANGED << pages_, page_table_, free_list_ >>
       ELSE LET frame_id == page_table_[page_id]
            IN  IF DeleteRefused(frame_id)
                THEN /\ ret' = RetBool(FALSE)
                     /\ UNCHANGED << pages_, page_table_, free_list_ >>
                ELSE /\ pages_' = [pages_ EXCEPT
                                      ![frame_id].page_id_ = INVALID_PAGE_ID,
                                      ![frame_id].pin_count_ = 0,
                                      ![frame_id].is_dirty_ = FALSE]
                     /\ free_list_' = PushFront(free_list_, frame_id)
                     /\ page_table_' = Erase(page_table_, page_id)
                     /\ ret' = RetBool(TRUE)
    /\ UNCHANGED << replacer_, next_page_id_, num_instances_, instance_index_,
                    disk, allocated, status >>

\* UnpinPgImp overwriting the dirty flag with the caller's.
UnpinDirty_Overwrite(is_dirty_, is_dirty) == is_dirty

\* if (!is_dirty_) is_dirty_ = is_dirty;
UnpinDirty(is_dirty_, is_dirty) == IF ~is_dirty_ THEN is_dirty ELSE is_dirty_

UnpinPgImp(page_id, is_dirty) ==
    /\ status = "running"
    /\ IF page_id \notin DOMAIN page_table_
       THEN /\ ret' = RetBool(FALSE)
            /\ UNCHANGED << pages_, replacer_ >>
       ELSE LET frame_id == page_table_[page_id]
            IN  IF pages_[frame_id].pin_count_ > 0
                THEN /\ pages_' = [pages_ EXCEPT
                                      ![frame_id].pin_count_ = @ - 1,
                                      ![frame_id].is_dirty_ =
                                          UnpinDirty(@, is_dirty)]
                     /\ replacer_' = IF pages_[frame_id].pin_count_ - 1 = 0
                                     THEN Unpin(replacer_, frame_id)
                                     ELSE replacer_
                     /\ ret' = RetBool(TRUE)
                ELSE /\ ret' = RetBool(FALSE)
                     /\ UNCHANGED << pages_, replacer_ >>
    /\ UNCHANGED << page_table_, free_list_, next_page_id_, num_instances_,
                    instance_index_, disk, allocated, status >>

\* A client that holds a pin on frame_id writes the frame's buffer through
\* the Page pointer it was given.
WriteData(frame_id, b) ==
    /\ status = "running"
    /\ pages_[frame_id].pin_count_ > 0
    /\ pages_[frame_id].data_ # b
    /\ pages_' = [pages_ EXCEPT ![frame_id].data_ = b]
    /\ UNCHANGED << page_table_, free_list_, replacer_, next_page_id_,
                    num_instances_, instance_index_, disk, ret, allocated,
                    status >>

Next ==
    \/ NewPgImp /\ UNCHANGED << threads, history >>
    \/ \E p \in PageIds : FetchPgImp(p) /\ UNCHANGED << threads, history >>
    \/ \E p \in PageIds, d \in BOOLEAN :
          UnpinPgImp(p, d) /\ UNCHANGED << threads, history >>
    \/ \E p \in PageIds : FlushPgImp(p) /\ UNCHANGED << threads, history >>
    \/ FlushAllPgsImp /\ UNCHANGED << threads, history >>
    \/ \E p \in PageIds : DeletePgImp(p) /\ UNCHANGED << threads, history >>

Spec == Init /\ [][Next]_vars

\* The same calls, with clients that write the pages they hold pinned.
NextIO ==
    \/ Next
    \/ \E f \in Frames, b \in Bytes :
          WriteData(f, b) /\ UNCHANGED << threads, history >>

\* A single instance that is not part of a parallel pool.
InitIO == Init /\ num_instances_ = 1

SpecIO == InitIO /\ [][NextIO]_vars

\* ------------------------------------------- the ClockReplacer on its own
\* A client of the replacer alone calls Victim, Pin and Unpin in any order on
\* a ClockReplacer of PoolSize slots, with one frame id more than it has slots.
\* ret is what Victim returned: the frame and true, or no frame and false.
ReplacerFrames == 0 .. PoolSize

VictimCall ==
    /\ status = "running"
    /\ LET v == Victim(replacer_)
       IN  IF v.hangs
           THEN /\ status' = "hung"
                /\ UNCHANGED << replacer_, ret >>
           ELSE /\ replacer_' = v.r
                /\ ret' = IF v.found THEN RetFrame(v.frame_id) ELSE RetBool(FALSE)
                /\ UNCHANGED status
    /\ UNCHANGED << pages_, page_table_, free_list_, next_page_id_,
                    num_instances_, instance_index_, disk, allocated >>

PinCall(frame_id) ==
    /\ status = "running"
    /\ replacer_' = Pin(replacer_, frame_id)
    /\ UNCHANGED << pages_, page_table_, free_list_, next_page_id_,
                    num_instances_, instance_index_, disk, ret, allocated,
                    status >>

UnpinCall(frame_id) ==
    /\ status = "running"
    /\ replacer_' = Unpin(replacer_, frame_id)
    /\ UNCHANGED << pages_, page_table_, free_list_, next_page_id_,
                    num_instances_, instance_index_, disk, ret, allocated,
                    status >>

NextReplacer ==
    \/ VictimCall /\ UNCHANGED << threads, history >>
    \/ \E f \in ReplacerFrames : PinCall(f) /\ UNCHANGED << threads, history >>
    \/ \E f \in ReplacerFrames : UnpinCall(f) /\ UNCHANGED << threads, history >>

SpecReplacer == InitIO /\ [][NextReplacer]_vars

\* ------------------------------------------------ the calls, with history
\* The pool as a call finds it.
Snapshot(page_id) ==
    [ page_id |-> page_id, pages |-> pages_, page_table |-> page_table_,
      free_list |-> free_list_, replacer |-> replacer_, disk |-> disk,
      next_page_id |-> next_page_id_ ]

\* touched_after after a call. miss says that the call was NewPgImp or
\* FetchPgImp of a page that was not resident, whose frame starts afresh. A
\* frame FetchPgImp pins again notes the frames that hold a page with
\* pin_count 0 at that moment: their last unpin came before. A frame leaves the
\* notes of the others when it is pinned or changes its page.
Remember(miss) ==
    touched_after' =
        [ a \in Frames |->
            IF (miss /\ ret'.frame = a)
                   \/ pages_'[a].page_id_ # pages_[a].page_id_
            THEN {}
            ELSE IF pages_[a].pin_count_ = 0 /\ pages_'[a].pin_count_ = 1
            THEN { b \in Frames \ {a} :
                     /\ pages_[b].page_id_ # INVALID_PAGE_ID
                     /\ pages_[b].pin_count_ = 0 }
            ELSE { b \in touched_after[a] :
                     /\ pages_'[b].pin_count_ = 0
                     /\ pages_'[b].page_id_ = pages_[b].page_id_
                     /\ ~(miss /\ ret'.frame = b) } ]

NextHistory ==
    \/ /\ NewPgImp
       /\ Remember(TRUE)
       /\ before' = << >>
       /\ UNCHANGED threads
    \/ \E p \in PageIds :
          /\ FetchPgImp(p)
          /\ Remember(p \notin DOMAIN page_table_)
          /\ before' = IF p \in DOMAIN page_table_
                       THEN << Snapshot(p) >> ELSE << >>
          /\ UNCHANGED threads
    \/ \E p \in PageIds, d \in BOOLEAN :
          /\ UnpinPgImp(p, d)
          /\ Remember(FALSE)
          /\ before' = << >>
          /\ UNCHANGED threads
    \/ \E p \in PageIds :
          /\ FlushPgImp(p)
          /\ Remember(FALSE)
          /\ before' = << >>
          /\ UNCHANGED threads
    \/ /\ FlushAllPgsImp
       /\ Remember(FALSE)
       /\ before' = << >>
       /\ UNCHANGED threads
    \/ \E p \in PageIds :
          /\ DeletePgImp(p)
          /\ Remember(FALSE)
          /\ before' = << >>
          /\ UNCHANGED threads

SpecHistory == InitIO /\ [][NextHistory]_vars

\* ------------------------------------------------------- several threads
\* What the threads' own steps leave alone.
pool == << page_table_, free_list_, replacer_, next_page_id_, num_instances_,
           instance_index_, allocated, status >>

\* Thread t calls NewPgImp, FetchPgImp, UnpinPgImp, FlushAllPgsImp or
\* DeletePgImp and comes to its first line, std::scoped_lock lock(latch_).
Call(t) ==
    /\ pc[t].at = "idle"
    /\ pc' = [pc EXCEPT ![t] = [at |-> "wait"]]
    /\ UNCHANGED << pool, pages_, disk, ret, latch_, history >>

\* The scoped_lock takes latch_, which is free.
Lock(t) ==
    /\ pc[t].at = "wait"
    /\ latch_ = 0
    /\ latch_' = t
    /\ pc' = [pc EXCEPT ![t] = [at |-> "locked"]]
    /\ UNCHANGED << pool, pages_, disk, ret, history >>

\* The call returns and the scoped_lock gives latch_ back; a call that never
\* returns keeps it.
Unlock(t) ==
    /\ IF status' = "running"
       THEN /\ latch_' = 0
            /\ pc' = [pc EXCEPT ![t] = [at |-> "idle"]]
       ELSE UNCHANGED << latch_, pc >>
    /\ UNCHANGED history

\* The body of the operation thread t has called, run under latch_.
Body(t) ==
    \/ pc[t].at = "locked" /\ NewPgImp /\ Unlock(t)
    \/ \E p \in PageIds : pc[t].at = "locked" /\ FetchPgImp(p) /\ Unlock(t)
    \/ \E p \in PageIds, d \in BOOLEAN :
          pc[t].at = "locked" /\ UnpinPgImp(p, d) /\ Unlock(t)
    \/ pc[t].at = "locked" /\ FlushAllPgsImp /\ Unlock(t)
    \/ \E p \in PageIds : pc[t].at = "locked" /\ DeletePgImp(p) /\ Unlock(t)

\* Thread t calls FlushPgImp(page_id), which takes no latch.
Flush(t, page_id) ==
    /\ pc[t].at = "idle"
    /\ FlushPgImp(page_id)
    /\ UNCHANGED << threads, history >>

NextThreads ==
    \/ \E t \in Threads : Call(t)
    \/ \E t \in Threads : Lock(t)
    \/ \E t \in Threads : Body(t)
    \/ \E t \in Threads, p \in PageIds : Flush(t, p)

\* A fair scheduler: a thread that holds latch_ runs the body of its call,
\* and a thread that waits for latch_ gets it when it is free often enough.
SpecThreads ==
    /\ InitIO
    /\ [][NextThreads]_vars
    /\ \A t \in Threads : SF_vars(Lock(t)) /\ WF_vars(Body(t))

\* ------------------------------------------ FlushPgImp, line by line
\* FlushPgImp takes no latch, so its lines run between the calls of the other
\* threads, which hold latch_ from their first line to their last and are
\* taken whole. Thread t calls FlushPgImp(page_id): page_table_.find.
FlushFind(t, page_id) ==
    /\ pc[t].at = "idle"
    /\ IF page_id \in DOMAIN page_table_
       THEN /\ pc' = [pc EXCEPT ![t] = [ at |-> "flush_found",
                                         page_id |-> page_id,
                                         frame_id |-> page_table_[page_id] ]]
            /\ UNCHANGED ret
       ELSE /\ ret' = RetBool(FALSE)
            /\ UNCHANGED pc
    /\ UNCHANGED << pool, pages_, disk, latch_, history >>

\* disk_manager_->WritePage(page_id, pages_[it->second].GetData());
FlushWrite(t) ==
    /\ pc[t].at = "flush_found"
    /\ disk' = WritePage(disk, pc[t].page_id, pages_[pc[t].frame_id].data_)
    /\ pc' = [pc EXCEPT ![t].at = "flush_written"]
    /\ UNCHANGED << pool, pages_, ret, latch_, history >>

\* pages_[it->second].is_dirty_ = false; return true;
FlushClear(t) ==
    /\ pc[t].at = "flush_written"
    /\ pages_' = [pages_ EXCEPT ![pc[t].frame_id].is_dirty_ = FALSE]
    /\ ret' = RetBool(TRUE)
    /\ pc' = [pc EXCEPT ![t] = [at |-> "idle"]]
    /\ UNCHANGED << pool, disk, latch_, history >>

\* A thread that is not inside FlushPgImp.
SomeIdle == \E t \in Threads : pc[t].at = "idle"

NextFlush ==
    \/ SomeIdle /\ NewPgImp /\ UNCHANGED << threads, history >>
    \/ \E p \in PageIds :
          SomeIdle /\ FetchPgImp(p) /\ UNCHANGED << threads, history >>
    \/ \E p \in PageIds, d \in BOOLEAN :
          SomeIdle /\ UnpinPgImp(p, d) /\ UNCHANGED << threads, history >>
    \/ SomeIdle /\ FlushAllPgsImp /\ UNCHANGED << threads, history >>
    \/ \E p \in PageIds :
          SomeIdle /\ DeletePgImp(p) /\ UNCHANGED << threads, history >>
    \/ \E t \in Threads, p \in PageIds : FlushFind(t, p)
    \/ \E t \in Threads : FlushWrite(t)
    \/ \E t \in Threads : FlushClear(t)

SpecFlush == InitIO /\ [][NextFlush]_vars

\* ---------------------------------------------------------------- claims
FreeFrames == { free_list_[i] : i \in 1 .. Len(free_list_) }

\* NewPgImp, or FetchPgImp of a page the page table does not hold, finds the
\* free list empty and comes back with a frame: the frame is Victim's.
TakesVictim ==
    /\ free_list_ = << >>
    /\ \/ NewPgImp
       \/ \E p \in PageIds : p \notin DOMAIN page_table_ /\ FetchPgImp(p)
    /\ ret'.frame # Nullptr

\* C1: a frame that NewPage or FetchPage takes from the replacer's Victim had
\* pin_count 0 when it was chosen and was in the range of the page table, and
\* a page whose pin_count is above 0 stays in the page table, in its frame.
C1_VictimWasUnpinnedAndResident ==
    [][ /\ TakesVictim =>
              /\ pages_[ret'.frame].pin_count_ = 0
              /\ ret'.frame \in Range(page_table_)
              /\ ret'.frame \notin FreeFrames
        /\ \A p \in DOMAIN page_table_ :
              pages_[page_table_[p]].pin_count_ > 0 =>
                  /\ p \in DOMAIN page_table_'
                  /\ page_table_'[p] = page_table_[p]
                  /\ pages_'[page_table_[p]].page_id_ = pages_[page_table_[p]].page_id_
      ]_vars

\* C2: FetchPage of a page the page table holds returns the page's frame and
\* adds exactly one to its pin_count, whatever the pin_count was.
C2_FetchHitAlwaysPins ==
    [][ \A p \in PageIds :
          (p \in DOMAIN page_table_ /\ FetchPgImp(p)) =>
              /\ ret'.frame = page_table_[p]
              /\ pages_'[page_table_[p]].pin_count_ =
                     pages_[page_table_[p]].pin_count_ + 1
      ]_vars

\* C4: every frame is in exactly one of the free list and the range of the
\* page table, pool_size = |free list| + |page table|, the free list holds no
\* frame twice, and a frame on the free list has pin_count 0, page id INVALID
\* and is not dirty.
C4_FreeListAndDirectoryPartition ==
    /\ \A f \in Frames : (f \in FreeFrames) # (f \in Range(page_table_))
    /\ PoolSize = Len(free_list_) + Cardinality(DOMAIN page_table_)
    /\ Cardinality(FreeFrames) = Len(free_list_)
    /\ \A f \in FreeFrames :
          /\ pages_[f].pin_count_ = 0
          /\ pages_[f].page_id_ = INVALID_PAGE_ID
          /\ ~pages_[f].is_dirty_

\* C5: the page table is injective and agrees with the frames: page_table_[p]
\* = f implies frame f holds p, and a frame is in the range of the page table
\* iff its page id is not INVALID and it is not on the free list.
C5_DirectoryInjectiveAndConsistent ==
    /\ \A p, q \in DOMAIN page_table_ : page_table_[p] = page_table_[q] => p = q
    /\ \A p \in DOMAIN page_table_ : pages_[page_table_[p]].page_id_ = p
    /\ \A f \in Frames :
          f \in Range(page_table_) <=>
              (pages_[f].page_id_ # INVALID_PAGE_ID /\ f \notin FreeFrames)

\* C3: when NewPage or FetchPage takes a victim whose page q is dirty, the
\* frame's bytes are on disk under q afterwards (written before the buffer is
\* zeroed and while q is still in the page table); the disk bytes of a page
\* change only to the bytes of a frame that holds it; and FetchPage of a page
\* that is not resident returns the page's disk bytes: so a page evicted
\* dirty comes back with the bytes it had at eviction.
C3_DirtyVictimWrittenBeforeReuse ==
    [][ /\ (TakesVictim /\ pages_[ret'.frame].is_dirty_
               /\ pages_[ret'.frame].page_id_ \in PageIds) =>
              disk'[pages_[ret'.frame].page_id_] = pages_[ret'.frame].data_
        /\ \A q \in PageIds :
              disk'[q] # disk[q] =>
                  \E f \in Frames : /\ pages_[f].page_id_ = q
                                    /\ disk'[q] = pages_[f].data_
        /\ \A q \in PageIds :
              (q \notin DOMAIN page_table_ /\ FetchPgImp(q)
                   /\ ret'.frame # Nullptr) =>
                  pages_'[ret'.frame].data_ = disk'[q]
      ]_vars

EveryFramePinned == \A f \in Frames : pages_[f].pin_count_ > 0

\* NewPgImp, or FetchPgImp of a page the page table does not hold.
NeedsFrame ==
    \/ NewPgImp
    \/ \E p \in PageIds : p \notin DOMAIN page_table_ /\ FetchPgImp(p)

\* C6: NewPage, and FetchPage of a page that is not resident, return the null
\* pointer exactly when every frame has pin_count > 0; when they succeed the
\* frame they return has pin_count 1; when they fail, the page table, the free
\* list, the frames, the replacer, the disk and the next page id are unchanged.
C6_NoFrameExactlyWhenAllPinned ==
    [][ NeedsFrame =>
          /\ status' = "running"
          /\ (ret'.frame = Nullptr) <=> EveryFramePinned
          /\ ret'.frame # Nullptr => pages_'[ret'.frame].pin_count_ = 1
          /\ ret'.frame = Nullptr =>
                UNCHANGED << pages_, page_table_, free_list_, replacer_,
                             next_page_id_, allocated, disk >>
      ]_vars

\* Every frame is pinned and the last call came back with the null pointer,
\* after NewPage has filled the pool.
C6_Witness ==
    /\ EveryFramePinned
    /\ ret = RetFrame(Nullptr)
    /\ Len(allocated) = PoolSize
    /\ \A f \in Frames : \E j \in 1 .. Len(allocated) :
          pages_[f].page_id_ = allocated[j]

\* C7: the j-th page id NewPage returns is instance_index + (j-1) *
\* num_instances: every id is instance_index modulo num_instances, the ids
\* are strictly increasing and none is returned twice; the assertion of
\* ValidatePageId never fails.
C7_AllocatedIdsFollowStride ==
    /\ status # "aborted"
    /\ \A j \in 1 .. Len(allocated) :
          /\ allocated[j] = instance_index_ + (j - 1) * num_instances_
          /\ allocated[j] % num_instances_ = instance_index_
    /\ \A i, j \in 1 .. Len(allocated) : i < j => allocated[i] < allocated[j]

\* Two ids allocated by an instance of a pool of several, the first of them
\* no longer resident.
C7_Witness ==
    /\ num_instances_ > 1
    /\ Len(allocated) >= 2
    /\ allocated[1] \notin DOMAIN page_table_
    /\ free_list_ # << >>

Evictable(r, f) ==
    \E i \in 0 .. (r.max_size_ - 1) : r.frame_ids_[i] = f /\ ~r.pinned_[i]

\* C8: UnpinPage(p, d) returns false and changes nothing when p is not
\* resident or its pin_count is 0; otherwise it returns true, takes one from
\* p's pin_count, makes p's dirty flag (prior dirty OR d) and makes p's frame
\* evictable in the replacer iff the pin_count reached 0. No pin_count is
\* ever negative.
C8_UnpinPage ==
    [][ /\ \A p \in PageIds, d \in BOOLEAN :
              UnpinPgImp(p, d) =>
                  IF p \notin DOMAIN page_table_
                  THEN /\ ~ret'.ok
                       /\ UNCHANGED << pages_, page_table_, free_list_,
                                       replacer_, disk, next_page_id_ >>
                  ELSE IF pages_[page_table_[p]].pin_count_ = 0
                  THEN /\ ~ret'.ok
                       /\ UNCHANGED << pages_, page_table_, free_list_,
                                       replacer_, disk, next_page_id_ >>
                  ELSE LET f == page_table_[p]
                       IN  /\ ret'.ok
                           /\ pages_' = [pages_ EXCEPT
                                  ![f].pin_count_ = pages_[f].pin_count_ - 1,
                                  ![f].is_dirty_ = (pages_[f].is_dirty_ \/ d)]
                           /\ UNCHANGED << page_table_, free_list_, disk,
                                           next_page_id_ >>
                           /\ IF pages_'[f].pin_count_ = 0
                              THEN Evictable(replacer_', f)
                              ELSE replacer_' = replacer_
        /\ \A f \in Frames : pages_'[f].pin_count_ >= 0
      ]_vars

\* A page that was dirty has been unpinned with dirty = false: it is still
\* dirty, unpinned and evictable.
C8_Witness ==
    /\ ret = RetBool(TRUE)
    /\ \E p \in DOMAIN page_table_ :
          /\ pages_[page_table_[p]].pin_count_ = 0
          /\ pages_[page_table_[p]].is_dirty_
          /\ Evictable(replacer_, page_table_[p])

\* C9: DeletePage of a resident page whose pin_count is above 0 returns false
\* and leaves the page table, the free list, every frame, the replacer and
\* the disk as they were.
C9_DeletePinnedChangesNothing ==
    [][ \A p \in PageIds :
          (p \in DOMAIN page_table_ /\ pages_[page_table_[p]].pin_count_ > 0
               /\ DeletePgImp(p)) =>
              /\ ret' = RetBool(FALSE)
              /\ UNCHANGED << pages_, page_table_, free_list_, replacer_,
                              disk, next_page_id_ >>
      ]_vars

\* A call has returned false while a pinned, dirty page is resident.
C9_Witness ==
    /\ ret = RetBool(FALSE)
    /\ \E p \in DOMAIN page_table_ :
          /\ pages_[page_table_[p]].pin_count_ > 0
          /\ pages_[page_table_[p]].is_dirty_
          /\ pages_[page_table_[p]].page_id_ = p

\* C10: FlushPage(p) returns false and writes nothing when p is not resident;
\* when p is resident it returns true whatever the pin_count, leaves the
\* pin_count, the page table, the free list and the replacer alone, clears
\* the dirty flag and makes p's disk bytes the frame's bytes. On a clean page
\* (flag clear, bytes as on disk) it changes neither the pool nor the disk.
C10_FlushPage ==
    [][ \A p \in PageIds :
          FlushPgImp(p) =>
              IF p \notin DOMAIN page_table_
              THEN /\ ~ret'.ok
                   /\ UNCHANGED << pages_, page_table_, free_list_, replacer_,
                                   disk, next_page_id_ >>
              ELSE LET f == page_table_[p]
                   IN  /\ ret'.ok
                       /\ pages_' = [pages_ EXCEPT ![f].is_dirty_ = FALSE]
                       /\ disk' = [disk EXCEPT ![p] = pages_[f].data_]
                       /\ UNCHANGED << page_table_, free_list_, replacer_,
                                       next_page_id_ >>
                       /\ (~pages_[f].is_dirty_ /\ pages_[f].data_ = disk[p]) =>
                              UNCHANGED << pages_, disk >>
      ]_vars

\* A pinned page whose holder wrote it has been flushed: it is clean, still
\* pinned, and its bytes are on disk.
C10_Witness ==
    /\ ret = RetBool(TRUE)
    /\ \E p \in DOMAIN page_table_ :
          /\ pages_[page_table_[p]].pin_count_ > 0
          /\ ~pages_[page_table_[p]].is_dirty_
          /\ pages_[page_table_[p]].data_ # 0
          /\ disk[p] = pages_[page_table_[p]].data_

\* C12: on the replacer alone, a Victim call made when Size() = 0 (slots
\* pinned, or emptied by earlier Victim calls, or both) returns false and
\* leaves the replacer as it was.
C12_VictimOnNothingEvictableReturnsFalse ==
    [][ (VictimCall /\ Size(replacer_) = 0) =>
            /\ status' = "running"
            /\ ret' = RetBool(FALSE)
            /\ replacer_' = replacer_
      ]_vars

\* C13: on the replacer alone, a Victim call made when Size() > 0 returns, and
\* returns true with a frame, after the hand has passed over at most two
\* revolutions of the slots.
C13_VictimTerminatesWithinTwoRevolutions ==
    [][ (VictimCall /\ Size(replacer_) > 0) =>
            /\ status' = "running"
            /\ ret'.ok
            /\ ret'.frame # Nullptr
            /\ Victim(replacer_).steps <= 2 * replacer_.max_size_
      ]_vars

\* Victim has returned a frame and the hand has gone past a slot that is still
\* registered and not pinned, and whose reference bit is clear.
C13_Witness ==
    /\ status = "running"
    /\ ret.ok /\ ret.frame # Nullptr
    /\ SlotsOf(replacer_, ret.frame) = {}
    /\ \E i \in 0 .. (replacer_.max_size_ - 1) :
          /\ replacer_.frame_ids_[i] # -1
          /\ ~replacer_.pinned_[i] /\ ~replacer_.ref_bits_[i]
          /\ replacer_.now_ # (i + 1) % replacer_.size_

\* C17: on the replacer alone, a Victim call that returns true yields a frame
\* that was registered and not pinned just before the call, never a pinned
\* one; after it the frame is not registered, Size() is one less, and the
\* other slots keep their frame ids and pinned flags. Pin and Unpin never
\* unregister a frame, and no frame id is in more than one slot.
C17_VictimTakesOneUnpinnedFrame ==
    [][ /\ (VictimCall /\ status' = "running" /\ ret'.ok) =>
              /\ ret'.frame # Nullptr
              /\ Evictable(replacer_, ret'.frame)
              /\ \A i \in SlotsOf(replacer_, ret'.frame) : ~replacer_.pinned_[i]
              /\ SlotsOf(replacer_', ret'.frame) = {}
              /\ Size(replacer_') = Size(replacer_) - 1
              /\ \A i \in 0 .. (replacer_.max_size_ - 1) :
                    replacer_.frame_ids_[i] # ret'.frame =>
                        /\ replacer_'.frame_ids_[i] = replacer_.frame_ids_[i]
                        /\ replacer_'.pinned_[i] = replacer_.pinned_[i]
        /\ \A f \in ReplacerFrames :
              (PinCall(f) \/ UnpinCall(f)) =>
                  \A g \in ReplacerFrames :
                      SlotsOf(replacer_, g) # {} => SlotsOf(replacer_', g) # {}
        /\ \A f \in ReplacerFrames : Cardinality(SlotsOf(replacer_', f)) <= 1
      ]_vars

\* Victim has returned a frame and left the replacer's other slot alone: the
\* slot is registered and pinned, the frame returned is not registered, and
\* nothing is evictable any more.
C17_Witness ==
    /\ status = "running"
    /\ ret.ok /\ ret.frame # Nullptr
    /\ SlotsOf(replacer_, ret.frame) = {}
    /\ Size(replacer_) = 0
    /\ \E i \in 0 .. (replacer_.max_size_ - 1) :
          /\ replacer_.frame_ids_[i] # -1 /\ replacer_.pinned_[i]
          /\ replacer_.now_ = i

C18_ReplacerMirrorsPinCounts ==
    /\ \A f \in Frames :
          pages_[f].pin_count_ > 0 =>
              \E i \in SlotsOf(replacer_, f) : replacer_.pinned_[i]
    /\ \A i \in 0 .. (replacer_.max_size_ - 1) :
          (replacer_.frame_ids_[i] # -1 /\ ~replacer_.pinned_[i]) =>
              pages_[replacer_.frame_ids_[i]].pin_count_ = 0
    /\ \A f \in Range(page_table_) :
          pages_[f].pin_count_ = 0 => Evictable(replacer_, f)
    /\ Size(replacer_) >=
          Cardinality({ p \in DOMAIN page_table_ :
                          pages_[page_table_[p]].pin_count_ = 0 })

\* One resident page is pinned and another is not, after a victim was taken:
\* the replacer has one slot pinned and one evictable.
C18_Witness ==
    /\ Len(allocated) > PoolSize
    /\ Size(replacer_) = 1
    /\ \E p, q \in DOMAIN page_table_ :
          /\ pages_[page_table_[p]].pin_count_ > 0
          /\ pages_[page_table_[q]].pin_count_ = 0
          /\ Evictable(replacer_, page_table_[q])
          /\ ~Evictable(replacer_, page_table_[p])

\* C16: the free list starts as 0 .. pool_size-1 in that order. DeletePage(p)
\* of a resident page with pin_count 0 returns true, takes p out of the page
\* table, makes its frame f page id INVALID, pin_count 0 and not dirty, writes
\* nothing to disk and puts f at the front of the free list; NewPage and a
\* FetchPage miss take the front of the free list when it is not empty, so f
\* is used before the frames that were free already. DeletePage of a page
\* that is not resident returns true and changes nothing.
C16_DeletePageFreesFrameToFront ==
    /\ free_list_ = [i \in 1 .. PoolSize |-> i - 1]
    /\ [][ /\ \A p \in PageIds :
                DeletePgImp(p) =>
                    IF p \notin DOMAIN page_table_
                    THEN /\ ret' = RetBool(TRUE)
                         /\ UNCHANGED << pages_, page_table_, free_list_,
                                         replacer_, disk, next_page_id_ >>
                    ELSE LET f == page_table_[p]
                         IN  (pages_[f].pin_count_ = 0 =>
                               /\ ret' = RetBool(TRUE)
                               /\ page_table_' = Erase(page_table_, p)
                               /\ pages_' = [pages_ EXCEPT ![f] =
                                      [ page_id_ |-> INVALID_PAGE_ID,
                                        pin_count_ |-> 0, is_dirty_ |-> FALSE,
                                        data_ |-> pages_[f].data_ ]]
                               /\ disk' = disk
                               /\ free_list_' = << f >> \o free_list_)
           /\ (NeedsFrame /\ free_list_ # << >>) =>
                 /\ ret'.frame = Head(free_list_)
                 /\ free_list_' = Tail(free_list_)
         ]_vars

\* DeletePage has returned true and the frame it freed is in front of a frame
\* with a smaller number that was free already; both are reset.
C16_Witness ==
    /\ ret = RetBool(TRUE)
    /\ Len(free_list_) >= 2
    /\ free_list_[1] > free_list_[2]
    /\ \A f \in FreeFrames :
          /\ pages_[f].page_id_ = INVALID_PAGE_ID
          /\ pages_[f].pin_count_ = 0
          /\ ~pages_[f].is_dirty_
    /\ page_table_ = << >>
    /\ Len(allocated) >= 2

\* C14: a frame that FetchPage pinned again, and that was unpinned after
\* that, is not the victim NewPage or a FetchPage miss takes while a frame
\* whose page was last unpinned before that FetchPage is still unpinned and
\* holds its page: with A and B resident and unpinned, FetchPage(A),
\* UnpinPage(A), the next victim is B's frame and A stays.
C14_TouchedPageOutlivesUntouched ==
    [][ TakesVictim => touched_after[ret'.frame] = {} ]_vars

\* C19: FetchPage(p) of a resident page p, whatever its pin_count, followed
\* by UnpinPage(p, false), leaves the page table, the free list, every frame,
\* the disk, the next page id and the replacer as FetchPage found them, but
\* for the reference bit of the slot of p's frame.
C19_FetchThenUnpinRestoresPool ==
    [][ \A p \in PageIds :
          (Len(before) = 1 /\ before[1].page_id = p /\ UnpinPgImp(p, FALSE)) =>
              LET b == before[1]
                  f == b.page_table[p]
              IN  /\ page_table_' = b.page_table
                  /\ free_list_' = b.free_list
                  /\ pages_' = b.pages
                  /\ disk' = b.disk
                  /\ next_page_id_' = b.next_page_id
                  /\ replacer_'.frame_ids_ = b.replacer.frame_ids_
                  /\ replacer_'.pinned_ = b.replacer.pinned_
                  /\ replacer_'.now_ = b.replacer.now_
                  /\ replacer_'.size_ = b.replacer.size_
                  /\ \A i \in 0 .. (b.replacer.max_size_ - 1) :
                        b.replacer.frame_ids_[i] # f =>
                            replacer_'.ref_bits_[i] = b.replacer.ref_bits_[i]
      ]_vars

\* C11: FlushPage is atomic with the other calls: whatever they do between
\* its lines, FlushPage(p) writes to disk under p the bytes of a frame that
\* holds p, and clears the dirty flag of a frame that holds p (not of one that
\* holds another page or has been freed).
C11_FlushPageIsAtomic ==
    [][ \A t \in Threads :
          /\ FlushWrite(t) =>
                pages_[pc[t].frame_id].page_id_ = pc[t].page_id
          /\ FlushClear(t) =>
                pages_[pc[t].frame_id].page_id_ = pc[t].page_id
      ]_vars

\* Thread t is not in a call, or it holds latch_ and the body of its call can
\* run, or it waits for latch_ and latch_ is free or held by another thread
\* whose body can run.
CanGoOn(t) ==
    \/ pc[t].at = "idle"
    \/ pc[t].at = "locked" /\ latch_ = t /\ ENABLED Body(t)
    \/ pc[t].at = "wait" /\ latch_ = 0 /\ ENABLED Lock(t)
    \/ /\ pc[t].at = "wait"
       /\ latch_ \in Threads \ {t}
       /\ pc[latch_].at = "locked"
       /\ ENABLED Body(latch_)

====
